---- MODULE Spec2Model ----
(***************************************************************************)
(* The user module of the backend: the in-memory repository                *)
(* (user.repository.ts) and the service layer on top of it (the async      *)
(* service, user.error.ts lines 31-101), and the HTTP routes in front of    *)
(* the service (user.routes.ts, with the schemas of user.model.dto.ts).    *)
(*                                                                         *)
(* Every repository and service function is an async function.  It runs    *)
(* synchronously up to its first await, and each await hands the rest of   *)
(* the function to the microtask queue, which is first-in first-out.       *)
(* The model keeps that queue: a call in flight owns exactly one pending   *)
(* microtask, and a step of the model runs the microtask at the head of    *)
(* the queue up to the next await of its call.  Callers may start a call   *)
(* between any two microtasks.                                             *)
(*                                                                         *)
(* Records are JavaScript objects: the store maps a username to a          *)
(* reference, update mutates the referenced object in place, and a         *)
(* reference read before an await is still used after it.  The model       *)
(* therefore keeps a heap of objects and addresses.                        *)
(***************************************************************************)
EXTENDS Integers, Sequences, FiniteSets, TLC

VARIABLES
    store,      \* the Map: sequence of [key, ref] entries in insertion order
    heap,       \* address -> User object (the objects still referenced)
    now,        \* the clock read by new Date()
    tasks,      \* slot -> the service call occupying it
    queue,      \* the microtask queue: slots of the calls in flight, FIFO
    base,       \* listing of the store when the current burst of calls began
    returned,   \* username -> increaseLoginsCounter calls that returned a
                \* record since the user was created (history)
    serial,     \* TRUE when the callers await each call before the next
    chain,      \* TRUE when the callers keep the results of consecutive calls
    ncalls      \* calls started so far, counted when the calls are bounded

vars == <<store, heap, now, tasks, queue, base, returned, serial, chain, ncalls>>

----------------------------------------------------------------------------
(* Bounds and input domains *)

MaxTime == 1         \* the clock runs over 0..MaxTime
MaxLogins == 2       \* no increment is started that would store a higher count
MaxBurst == 2        \* calls in one burst of overlapping calls
MaxCalls == 3        \* calls per behaviour of the interleaved specification
MaxPage == 1         \* pageCurrent and pageSize range over 0..MaxPage
MaxRosterPage == 3   \* the same, where the store holds up to three records

Usernames == {"alice", "bob"}
FirstNames == {"Ann", "Amy"}
LastNames == {"Lee"}
Statuses == {"active", "inactive"}

(* The usernames of the specification that fills the store further *)
Roster == Usernames \cup {"carol"}

Slots == 1..MaxBurst

(* Callers that keep results keep those of a call and of the call directly *)
(* before it                                                               *)
Pair == 2

(* An address names an object.  An object never changes its username, so   *)
(* the model numbers the objects of each username apart: one in the store  *)
(* and one per call of a burst that may still hold an older one.           *)
Addrs == Roster \X (1..(1 + MaxBurst))

----------------------------------------------------------------------------
(* Values *)

NoRef == <<"", 0>>
Undefined == [kind |-> "undefined"]
Bool(b) == [kind |-> "boolean", value |-> b]

Pending == [kind |-> "pending"]
Returned(v) == [kind |-> "returned", value |-> v]
Thrown(e) == [kind |-> "thrown", error |-> e]

IsUser(v) == "username" \in DOMAIN v

(* PageCurrentError and PageSizeError extend RangeError *)
RangeErrors == {"PageCurrentError", "PageSizeError"}

(* CreatePayload: Pick<User, 'username' | 'firstName' | 'lastName'> *)
CreatePayload == [username : Usernames, firstName : FirstNames, lastName : LastNames]

(* UpdateDetailsPayload: Partial<Pick<User, 'firstName' | 'lastName'>>.    *)
(* A field that is absent or undefined is not in the record's domain.      *)
UpdateDetailsPayload ==
    {<<>>}
    \cup [firstName : FirstNames]
    \cup [lastName : LastNames]
    \cup [firstName : FirstNames, lastName : LastNames]

(* UpdateStatusPayload: Pick<User, 'status'> *)
UpdateStatusPayload == [status : Statuses]

(* UpdatePayload of the repository:                                        *)
(* Partial<Pick<User, 'firstName' | 'lastName' | 'status' | 'loginsCounter'>>. *)
(* A key may be absent, or present with the value undefined, which a       *)
(* payload writes as Void(f): a value of the field's type that no record   *)
(* holds.                                                                  *)
UpdateFields == {"firstName", "lastName", "status", "loginsCounter"}

Void(f) == IF f = "loginsCounter" THEN -1 ELSE "undefined"

FieldValues(f) ==
    CASE f = "firstName" -> FirstNames
      [] f = "lastName" -> LastNames
      [] f = "status" -> Statuses
      [] f = "loginsCounter" -> 0..MaxLogins

UpdatePayload ==
    {[f \in D |-> full[f]] :
        D \in SUBSET UpdateFields,
        full \in [firstName : FieldValues("firstName") \cup {Void("firstName")},
                  lastName : FieldValues("lastName") \cup {Void("lastName")},
                  status : FieldValues("status") \cup {Void("status")},
                  loginsCounter : FieldValues("loginsCounter") \cup {Void("loginsCounter")}]}

(* data.f !== undefined *)
Has(data, f) == f \in DOMAIN data /\ data[f] # Void(f)

----------------------------------------------------------------------------
(* The Map<string, User> of the repository *)

MapHas(m, k) == \E i \in 1..Len(m) : m[i].key = k

MapGet(m, k) ==
    IF MapHas(m, k)
    THEN m[CHOOSE i \in 1..Len(m) : m[i].key = k].ref
    ELSE NoRef

(* Map.set: an existing key keeps its position, a new key goes last *)
MapSet(m, k, a) ==
    IF MapHas(m, k)
    THEN [i \in 1..Len(m) |-> IF m[i].key = k THEN [key |-> k, ref |-> a] ELSE m[i]]
    ELSE Append(m, [key |-> k, ref |-> a])

(* Map.delete as an array-backed store might do it: the last entry is     *)
(* moved into the place of the deleted one                                 *)
MapDelete_SwapLast(m, k) ==
    IF ~MapHas(m, k)
    THEN m
    ELSE LET i == CHOOSE j \in 1..Len(m) : m[j].key = k
         IN  [j \in 1..(Len(m) - 1) |-> IF j = i THEN m[Len(m)] ELSE m[j]]

(* Map.delete: the other entries keep their order *)
MapDelete(m, k) == SelectSeq(m, LAMBDA e : e.key # k)

(* Array.from(store.values()) *)
MapValues(m, h) == [i \in 1..Len(m) |-> h[m[i].ref]]

structuredClone(h, a) == IF a = NoRef THEN Undefined ELSE h[a]

(* A fresh object: the lowest address of the username no live object has *)
Alloc(h, username) ==
    LET free == {a \in Addrs \ DOMAIN h : a[1] = username}
    IN  CHOOSE a \in free : \A b \in free : a[2] <= b[2]

(* structuredClone(user) as an object: the heap with the copy in it, and   *)
(* the address of the copy                                                 *)
CloneObject(h, a) ==
    LET c == Alloc(h, a[1])
    IN  [heap |-> [x \in DOMAIN h \cup {c} |-> IF x = c THEN h[a] ELSE h[x]],
         addr |-> c]

(* structuredClone(array): every element is copied *)
RECURSIVE CloneAll(_, _, _)
CloneAll(h, refs, copies) ==
    IF refs = <<>>
    THEN [heap |-> h, out |-> copies]
    ELSE LET c == CloneObject(h, Head(refs))
         IN  CloneAll(c.heap, Tail(refs), Append(copies, c.addr))

----------------------------------------------------------------------------
(* Calls.  A call is a record: its operation and arguments, the await it   *)
(* is suspended at (pc), the locals that live across awaits, and its       *)
(* outcome.  The outcome is the value the caller received; out holds the   *)
(* addresses of the User objects that value consists of, which the caller  *)
(* now owns.                                                               *)

(* No reply has been sent *)
NoReply == [status |-> 0, body |-> Undefined]

(* A call made by a route handler carries the route, the request and, when *)
(* the handler has answered, the reply                                     *)
FreeTask ==
    [op |-> "none", args |-> Undefined, pc |-> "free",
     ref |-> NoRef, local |-> Undefined, data |-> Undefined, outcome |-> Pending,
     out |-> <<>>,
     route |-> "none", request |-> Undefined, reply |-> NoReply]

NewTask(op, args, pc) == [FreeTask EXCEPT !.op = op, !.args = args, !.pc = pc]

(* The call ends with outcome o.  When the repository function returns or *)
(* throws, the service function's `return await` passes the outcome on     *)
(* unchanged; the microtasks that carry it there (one after a plain return *)
(* or a throw, three after `return Promise.resolve(...)`) run no code of   *)
(* the module and read no state, and they are always the last of their     *)
(* call, so the model folds them into the step that decides the outcome.   *)
Finish(t, o) ==
    [t EXCEPT !.pc = "done", !.outcome = o,
              !.ref = NoRef, !.local = Undefined, !.data = Undefined]

InFlight(t) == t.pc \notin {"free", "done"}

----------------------------------------------------------------------------
(* user.repository.ts.  Each function is cut at its awaits into segments;  *)
(* a segment maps the world w = [store, heap, now] and the call t to the   *)
(* world and the call after it.                                            *)

Out(s, h, t) == [store |-> s, heap |-> h, task |-> t]

(* NewUser as it would be if line 64 were left out and the record kept no *)
(* time of its own for lastUpdateTime                                      *)
NewUser_NoUpdateTime(data, ts) ==
    [username |-> data.username, firstName |-> data.firstName,
     lastName |-> data.lastName, status |-> "active", loginsCounter |-> 0,
     creationTime |-> ts, lastUpdateTime |-> 0]

(* create, lines 59-65: the record built from the payload *)
NewUser(data, ts) ==
    [username |-> data.username, firstName |-> data.firstName,
     lastName |-> data.lastName, status |-> "active", loginsCounter |-> 0,
     creationTime |-> ts, lastUpdateTime |-> ts]

(* ApplyUpdate as it would be with Object.assign(user, data): every key of *)
(* the payload is written, undefined or not                                *)
ApplyUpdate_Assign(user, data, ts) ==
    [user EXCEPT
        !.firstName = IF "firstName" \in DOMAIN data THEN data.firstName ELSE @,
        !.lastName = IF "lastName" \in DOMAIN data THEN data.lastName ELSE @,
        !.status = IF "status" \in DOMAIN data THEN data.status ELSE @,
        !.loginsCounter = IF "loginsCounter" \in DOMAIN data THEN data.loginsCounter ELSE @,
        !.lastUpdateTime = ts]

(* ApplyUpdate as it would be without line 86: lastUpdateTime is left *)
ApplyUpdate_NoTouch(user, data, ts) ==
    [user EXCEPT
        !.firstName = IF Has(data, "firstName") THEN data.firstName ELSE @,
        !.lastName = IF Has(data, "lastName") THEN data.lastName ELSE @,
        !.status = IF Has(data, "status") THEN data.status ELSE @,
        !.loginsCounter = IF Has(data, "loginsCounter") THEN data.loginsCounter ELSE @]

(* ApplyUpdate as it would be if the record were rebuilt like a new one,   *)
(* creationTime included                                                   *)
ApplyUpdate_Restamped(user, data, ts) ==
    [user EXCEPT
        !.firstName = IF Has(data, "firstName") THEN data.firstName ELSE @,
        !.lastName = IF Has(data, "lastName") THEN data.lastName ELSE @,
        !.status = IF Has(data, "status") THEN data.status ELSE @,
        !.loginsCounter = IF Has(data, "loginsCounter") THEN data.loginsCounter ELSE @,
        !.creationTime = ts,
        !.lastUpdateTime = ts]

(* ApplyUpdate as it would be without line 83: the status is never written *)
ApplyUpdate_NoStatus(user, data, ts) ==
    [user EXCEPT
        !.firstName = IF Has(data, "firstName") THEN data.firstName ELSE @,
        !.lastName = IF Has(data, "lastName") THEN data.lastName ELSE @,
        !.loginsCounter = IF Has(data, "loginsCounter") THEN data.loginsCounter ELSE @,
        !.lastUpdateTime = ts]

(* update, lines 81-86: only the fields present in the payload are written *)
ApplyUpdate(user, data, ts) ==
    [user EXCEPT
        !.firstName = IF Has(data, "firstName") THEN data.firstName ELSE @,
        !.lastName = IF Has(data, "lastName") THEN data.lastName ELSE @,
        !.status = IF Has(data, "status") THEN data.status ELSE @,
        !.loginsCounter = IF Has(data, "loginsCounter") THEN data.loginsCounter ELSE @,
        !.lastUpdateTime = ts]

(* getAll, lines 26-37: the page of the listing *)
Min(a, b) == IF a <= b THEN a ELSE b

(* Ceil as it would be computed by Math.floor(n / d) + 1 *)
Ceil_FloorPlusOne(n, d) == (n \div d) + 1

(* Math.ceil(n / d), for n >= 0 and d >= 1 *)
Ceil(n, d) == (n + d - 1) \div d

(* Page as it would be with pages counted from 0: offset = pageCurrent *  *)
(* pageSize                                                                *)
Page_ZeroBased(usersAsArray, pageCurrent, pageSize) ==
    LET offset == pageCurrent * pageSize
        limit == offset + pageSize
    IN  [list |-> SubSeq(usersAsArray, offset + 1, Min(limit, Len(usersAsArray))),
         pageCurrent |-> pageCurrent,
         pageSize |-> pageSize,
         pageCount |-> Ceil(Len(usersAsArray), pageSize)]

(* Page as it would be with a slice that includes its end position:       *)
(* limit = offset + pageSize + 1                                           *)
Page_Inclusive(usersAsArray, pageCurrent, pageSize) ==
    LET offset == (pageCurrent - 1) * pageSize
        limit == offset + pageSize + 1
    IN  [list |-> SubSeq(usersAsArray, offset + 1, Min(limit, Len(usersAsArray))),
         pageCurrent |-> pageCurrent,
         pageSize |-> pageSize,
         pageCount |-> Ceil(Len(usersAsArray), pageSize)]

Page(usersAsArray, pageCurrent, pageSize) ==
    LET offset == (pageCurrent - 1) * pageSize
        limit == offset + pageSize
    IN  [list |-> SubSeq(usersAsArray, offset + 1, Min(limit, Len(usersAsArray))),
         pageCurrent |-> pageCurrent,
         pageSize |-> pageSize,
         pageCount |-> Ceil(Len(usersAsArray), pageSize)]

(* getAll0 as it would be with lines 20 and 21 in the other order: the    *)
(* page size is checked first                                              *)
getAll0_SizeFirst(w, t) ==
    IF t.args.pageSize < 1
    THEN Out(w.store, w.heap, Finish(t, Thrown("PageSizeError")))
    ELSE IF t.args.pageCurrent < 1
    THEN Out(w.store, w.heap, Finish(t, Thrown("PageCurrentError")))
    ELSE Out(w.store, w.heap, [t EXCEPT !.pc = "getAll"])

(* getAll up to its await: the range checks, then store.values(), a live   *)
(* iterator that is only read after the await                              *)
getAll0(w, t) ==
    IF t.args.pageCurrent < 1
    THEN Out(w.store, w.heap, Finish(t, Thrown("PageCurrentError")))
    ELSE IF t.args.pageSize < 1
    THEN Out(w.store, w.heap, Finish(t, Thrown("PageSizeError")))
    ELSE Out(w.store, w.heap, [t EXCEPT !.pc = "getAll"])

(* getAll1 as it would be over a Map that keeps its entries in order of    *)
(* use: the first entry read moves behind the others                       *)
getAll1_OrderOfUse(w, t) ==
    LET refs == Page([i \in 1..Len(w.store) |-> w.store[i].ref],
                     t.args.pageCurrent, t.args.pageSize).list
        c == CloneAll(w.heap, refs, <<>>)
    IN  Out(IF w.store = <<>> THEN w.store ELSE Append(Tail(w.store), Head(w.store)),
            c.heap,
            [Finish(t, Returned(Page(MapValues(w.store, w.heap),
                                     t.args.pageCurrent, t.args.pageSize)))
                EXCEPT !.out = c.out])

getAll1(w, t) ==
    LET refs == Page([i \in 1..Len(w.store) |-> w.store[i].ref],
                     t.args.pageCurrent, t.args.pageSize).list
        c == CloneAll(w.heap, refs, <<>>)
    IN  Out(w.store, c.heap,
            [Finish(t, Returned(Page(MapValues(w.store, w.heap),
                                     t.args.pageCurrent, t.args.pageSize)))
                EXCEPT !.out = c.out])

(* getByUsername up to its await: store.get(username) *)
getByUsername0(w, t) ==
    Out(w.store, w.heap,
        [t EXCEPT !.pc = "getByUsername", !.ref = MapGet(w.store, t.args.username)])

(* getByUsername1 as it would be if reading took the record out of the    *)
(* store                                                                   *)
getByUsername1_Takes(w, t) ==
    LET user == structuredClone(w.heap, t.ref)
    IN  IF t.op # "getByUsername"
        THEN Out(w.store, w.heap,
                 [t EXCEPT !.pc = t.op, !.ref = NoRef, !.local = user])
        ELSE IF t.ref = NoRef
        THEN Out(w.store, w.heap, Finish(t, Returned(user)))
        ELSE LET c == CloneObject(w.heap, t.ref)
             IN  Out(MapDelete(w.store, t.args.username), c.heap,
                     [Finish(t, Returned(user)) EXCEPT !.out = <<c.addr>>])

(* getByUsername after its await: the clone of the object read before it.  *)
(* For the service's getByUsername the value is the call's outcome; for    *)
(* updateUserDetails and increaseLoginsCounter it is targetUser.           *)
getByUsername1(w, t) ==
    LET user == structuredClone(w.heap, t.ref)
    IN  IF t.op # "getByUsername"
        THEN Out(w.store, w.heap,
                 [t EXCEPT !.pc = t.op, !.ref = NoRef, !.local = user])
        ELSE IF t.ref = NoRef
        THEN Out(w.store, w.heap, Finish(t, Returned(user)))
        ELSE LET c == CloneObject(w.heap, t.ref)
             IN  Out(w.store, c.heap,
                     [Finish(t, Returned(user)) EXCEPT !.out = <<c.addr>>])

(* create up to its first await: existingUser = store.get(data.username) *)
create0(w, t) ==
    Out(w.store, w.heap,
        [t EXCEPT !.pc = "create", !.ref = MapGet(w.store, t.args.data.username)])

(* create1 as it would be without line 55: the record is always written *)
create1_NoExistsCheck(w, t) ==
    LET a == Alloc(w.heap, t.args.data.username)
        user == NewUser(t.args.data, w.now)
    IN  Out(MapSet(w.store, t.args.data.username, a),
            [x \in DOMAIN w.heap \cup {a} |-> IF x = a THEN user ELSE w.heap[x]],
            [t EXCEPT !.pc = "create_set", !.ref = a])

(* create1 as it would be with store.set(data.firstName, user) on line 66 *)
create1_KeyedByFirstName(w, t) ==
    IF t.ref # NoRef
    THEN Out(w.store, w.heap, Finish(t, Thrown("UsernameExistsError")))
    ELSE LET a == Alloc(w.heap, t.args.data.username)
             user == NewUser(t.args.data, w.now)
         IN  Out(MapSet(w.store, t.args.data.firstName, a),
                 [x \in DOMAIN w.heap \cup {a} |-> IF x = a THEN user ELSE w.heap[x]],
                 [t EXCEPT !.pc = "create_set", !.ref = a])

(* create between its awaits: the check of existingUser, then store.set *)
create1(w, t) ==
    IF t.ref # NoRef
    THEN Out(w.store, w.heap, Finish(t, Thrown("UsernameExistsError")))
    ELSE LET a == Alloc(w.heap, t.args.data.username)
             user == NewUser(t.args.data, w.now)
         IN  Out(MapSet(w.store, t.args.data.username, a),
                 [x \in DOMAIN w.heap \cup {a} |-> IF x = a THEN user ELSE w.heap[x]],
                 [t EXCEPT !.pc = "create_set", !.ref = a])

(* create2 as it would be if the record returned were built again, with   *)
(* the time of the return, instead of copied from the one stored           *)
create2_Rebuilt(w, t) ==
    LET c == CloneObject(w.heap, t.ref)
    IN  Out(w.store, c.heap,
            [Finish(t, Returned(NewUser(t.args.data, w.now)))
                EXCEPT !.out = <<c.addr>>])

(* create after its second await: return Promise.resolve(structuredClone(user)) *)
create2(w, t) ==
    LET c == CloneObject(w.heap, t.ref)
    IN  Out(w.store, c.heap,
            [Finish(t, Returned(structuredClone(w.heap, t.ref)))
                EXCEPT !.out = <<c.addr>>])

(* update up to its await: user = store.get(username) *)
update0(w, t, data) ==
    Out(w.store, w.heap,
        [t EXCEPT !.pc = "update", !.ref = MapGet(w.store, t.args.username),
                  !.local = Undefined, !.data = data])

(* update1 as it would be if it did what its documentation says and threw *)
(* when the user does not exist                                            *)
update1_Throws(w, t) ==
    IF t.ref = NoRef
    THEN Out(w.store, w.heap, Finish(t, Thrown("UserNotFoundError")))
    ELSE LET user == ApplyUpdate(w.heap[t.ref], t.data, w.now)
             c == CloneObject([w.heap EXCEPT ![t.ref] = user], t.ref)
         IN  Out(w.store, c.heap,
                 [Finish(t, Returned(user)) EXCEPT !.out = <<c.addr>>])

(* update1 as it would be with `return Promise.resolve(user)` on line 88: *)
(* the stored object itself is returned                                    *)
update1_NoClone(w, t) ==
    IF t.ref = NoRef
    THEN Out(w.store, w.heap, Finish(t, Returned(Undefined)))
    ELSE LET user == ApplyUpdate(w.heap[t.ref], t.data, w.now)
         IN  Out(w.store, [w.heap EXCEPT ![t.ref] = user],
                 [Finish(t, Returned(user)) EXCEPT !.out = <<t.ref>>])

(* update1 as it would be if it stored the record again, by store.delete   *)
(* and store.set, after writing it                                         *)
update1_Reinserts(w, t) ==
    IF t.ref = NoRef
    THEN Out(w.store, w.heap, Finish(t, Returned(Undefined)))
    ELSE LET user == ApplyUpdate(w.heap[t.ref], t.data, w.now)
             c == CloneObject([w.heap EXCEPT ![t.ref] = user], t.ref)
         IN  Out(MapSet(MapDelete(w.store, t.args.username), t.args.username, t.ref),
                 c.heap,
                 [Finish(t, Returned(user)) EXCEPT !.out = <<c.addr>>])

(* update after its await: the object read before the await is mutated in  *)
(* place, whether or not the store still holds it, and a copy is returned  *)
update1(w, t) ==
    IF t.ref = NoRef
    THEN Out(w.store, w.heap, Finish(t, Returned(Undefined)))
    ELSE LET user == ApplyUpdate(w.heap[t.ref], t.data, w.now)
             c == CloneObject([w.heap EXCEPT ![t.ref] = user], t.ref)
         IN  Out(w.store, c.heap,
                 [Finish(t, Returned(user)) EXCEPT !.out = <<c.addr>>])

(* remove0 as it would be if it returned true whatever store.delete found *)
remove0_AlwaysTrue(w, t) ==
    Out(MapDelete(w.store, t.args.username), w.heap,
        [t EXCEPT !.pc = "remove", !.local = Bool(TRUE)])

(* remove0 as it would be if removal were gated like the updates: only   *)
(* the record of an active user is deleted                                 *)
remove0_ActiveOnly(w, t) ==
    LET a == MapGet(w.store, t.args.username)
        go == a # NoRef /\ w.heap[a].status = "active"
    IN  Out(IF go THEN MapDelete(w.store, t.args.username) ELSE w.store, w.heap,
            [t EXCEPT !.pc = "remove", !.local = Bool(go)])

(* remove up to its await: store.delete(username) *)
remove0(w, t) ==
    Out(MapDelete(w.store, t.args.username), w.heap,
        [t EXCEPT !.pc = "remove",
                  !.local = Bool(MapHas(w.store, t.args.username))])

(* remove after its await: return Promise.resolve(res) *)
remove1(w, t) == Out(w.store, w.heap, Finish(t, Returned(t.local)))

(* clearAll0 as it would be without the call of store.clear() *)
clearAll0_NoClear(w, t) == Out(w.store, w.heap, [t EXCEPT !.pc = "clearAll"])

(* clearAll up to its await: store.clear() *)
clearAll0(w, t) == Out(<<>>, w.heap, [t EXCEPT !.pc = "clearAll"])

(* clearAll after its await: the function ends and its promise resolves to *)
(* undefined                                                               *)
clearAll1(w, t) == Out(w.store, w.heap, Finish(t, Returned(Undefined)))

----------------------------------------------------------------------------
(* The service, user.error.ts lines 31-101 *)

(* updateUserDetails as it would be without line 69 *)
updateUserDetails_NoGate(w, t) ==
    IF ~IsUser(t.local)
    THEN Out(w.store, w.heap, Finish(t, Returned(Undefined)))
    ELSE update0(w, t, t.args.data)

(* updateUserDetails after `await userRepository.getByUsername(username)` *)
updateUserDetails(w, t) ==
    IF ~IsUser(t.local)
    THEN Out(w.store, w.heap, Finish(t, Returned(Undefined)))
    ELSE IF t.local.status = "inactive"
    THEN Out(w.store, w.heap, Finish(t, Thrown("UserInactiveError")))
    ELSE update0(w, t, t.args.data)

(* updateUserStatus as it would be if a change of status started the      *)
(* count of logins again                                                   *)
updateUserStatus_ResetsCounter(w, t) ==
    update0(w, t, [status |-> t.args.data.status, loginsCounter |-> 0])

(* updateUserStatus: return await userRepository.update(username, data) *)
updateUserStatus(w, t) == update0(w, t, t.args.data)

(* increaseLoginsCounter as it would be without line 89 *)
increaseLoginsCounter_NoGate(w, t) ==
    IF ~IsUser(t.local)
    THEN Out(w.store, w.heap, Finish(t, Returned(Undefined)))
    ELSE update0(w, t, [t.local EXCEPT !.loginsCounter = @ + 1])

(* increaseLoginsCounter as it would be without line 91 *)
increaseLoginsCounter_NoIncrement(w, t) ==
    IF ~IsUser(t.local)
    THEN Out(w.store, w.heap, Finish(t, Returned(Undefined)))
    ELSE IF t.local.status = "inactive"
    THEN Out(w.store, w.heap, Finish(t, Thrown("UserInactiveError")))
    ELSE update0(w, t, t.local)

(* increaseLoginsCounter after `await userRepository.getByUsername(username)`: *)
(* the whole of targetUser, counter raised by one, is the update payload   *)
increaseLoginsCounter(w, t) ==
    IF ~IsUser(t.local)
    THEN Out(w.store, w.heap, Finish(t, Returned(Undefined)))
    ELSE IF t.local.status = "inactive"
    THEN Out(w.store, w.heap, Finish(t, Thrown("UserInactiveError")))
    ELSE update0(w, t, [t.local EXCEPT !.loginsCounter = @ + 1])

(* Begin as it would be if the service gated removal by the status, as it *)
(* gates the two updates                                                   *)
Begin_GatedRemove(w, op, args) ==
    LET t == NewTask(op, args, op)
    IN  CASE op = "getAll" -> getAll0(w, t)
          [] op = "getByUsername" -> getByUsername0(w, t)
          [] op = "create" -> create0(w, t)
          [] op = "updateUserDetails" -> getByUsername0(w, t)
          [] op = "updateUserStatus" -> updateUserStatus(w, t)
          [] op = "increaseLoginsCounter" -> getByUsername0(w, t)
          [] op = "remove" -> remove0_ActiveOnly(w, t)
          [] op = "update" -> update0(w, t, t.args.data)
          [] op = "clearAll" -> clearAll0(w, t)

(* The synchronous part of a service call: everything up to the first await *)
Begin(w, op, args) ==
    LET t == NewTask(op, args, op)
    IN  CASE op = "getAll" -> getAll0(w, t)
          [] op = "getByUsername" -> getByUsername0(w, t)
          [] op = "create" -> create0(w, t)
          [] op = "updateUserDetails" -> getByUsername0(w, t)
          [] op = "updateUserStatus" -> updateUserStatus(w, t)
          [] op = "increaseLoginsCounter" -> getByUsername0(w, t)
          [] op = "remove" -> remove0(w, t)
          [] op = "update" -> update0(w, t, t.args.data)
          [] op = "clearAll" -> clearAll0(w, t)

(* The microtask of a call in flight: the code from the await it is        *)
(* suspended at to the next one                                            *)
Resume(w, t) ==
    CASE t.pc = "getAll" -> getAll1(w, t)
      [] t.pc = "getByUsername" -> getByUsername1(w, t)
      [] t.pc = "create" -> create1(w, t)
      [] t.pc = "create_set" -> create2(w, t)
      [] t.pc = "update" -> update1(w, t)
      [] t.pc = "remove" -> remove1(w, t)
      [] t.pc = "updateUserDetails" -> updateUserDetails(w, t)
      [] t.pc = "increaseLoginsCounter" -> increaseLoginsCounter(w, t)
      [] t.pc = "clearAll" -> clearAll1(w, t)

----------------------------------------------------------------------------
(* user.routes.ts and the schemas of user.model.dto.ts.  A handler awaits  *)
(* one service call and answers from its outcome; the code after the await *)
(* reads nothing but that outcome and the request, so the model runs it in *)
(* the step that ends the service call.                                    *)

DefaultPageCurrent == 1
DefaultPageSize == 6

(* A query string value as it arrives: the digits of a number, or text     *)
(* that is no number                                                       *)
NotANumber == "abc"
RawNumbers == {ToString(n) : n \in 0..MaxPage} \cup {NotANumber}

(* The query of GET /api/users: each key present or left out *)
Queries ==
    {<<>>}
    \cup [pageCurrent : RawNumbers]
    \cup [pageSize : RawNumbers]
    \cup [pageCurrent : RawNumbers, pageSize : RawNumbers]

(* z.coerce.number(): Number(raw), which is NaN for text that is no number *)
Number(raw) ==
    IF \E n \in 0..MaxPage : ToString(n) = raw
    THEN [nan |-> FALSE, value |-> CHOOSE n \in 0..MaxPage : ToString(n) = raw]
    ELSE [nan |-> TRUE, value |-> 0]

(* A field of the query as it would be parsed with .nonnegative() in the   *)
(* place of .positive()                                                    *)
ParseField_NonNegative(query, key, default) ==
    IF key \notin DOMAIN query
    THEN [ok |-> TRUE, value |-> default]
    ELSE LET n == Number(query[key])
         IN  [ok |-> ~n.nan /\ n.value >= 0, value |-> n.value]

(* z.coerce.number().int().positive().default(d) on one key of the query *)
ParseField(query, key, default) ==
    IF key \notin DOMAIN query
    THEN [ok |-> TRUE, value |-> default]
    ELSE LET n == Number(query[key])
         IN  [ok |-> ~n.nan /\ n.value > 0, value |-> n.value]

(* UserGetAllSchema.querystring *)
ParseQuery(query) ==
    LET pageCurrent == ParseField(query, "pageCurrent", DefaultPageCurrent)
        pageSize == ParseField(query, "pageSize", DefaultPageSize)
    IN  [ok |-> pageCurrent.ok /\ pageSize.ok,
         pageCurrent |-> pageCurrent.value,
         pageSize |-> pageSize.value]

(* err.message of the error the call has thrown: the constructors of       *)
(* user.error.ts, with the argument each is called with                    *)
ErrorMessage(t) ==
    CASE t.outcome.error = "UsernameExistsError" ->
            <<"Username already exists: '", t.args.data.username, "'">>
      [] t.outcome.error = "UserInactiveError" ->
            <<"User is inactive: '", t.args.username, "'">>
      [] t.outcome.error = "PageCurrentError" ->
            <<"Page current must be non-negative: '", ToString(t.args.pageCurrent), "'">>
      [] t.outcome.error = "PageSizeError" ->
            <<"Page size must be non-negative: '", ToString(t.args.pageSize), "'">>

Reply(status, body) == [status |-> status, body |-> body]

(* The request does not pass the schema: the handler is not called *)
BadRequest == Reply(400, [kind |-> "validation"])

(* The handler's promise is rejected: the framework answers 500 with the   *)
(* message of the error                                                    *)
Unhandled(t) == Reply(500, [message |-> ErrorMessage(t)])

NotFound(username) == Reply(404, [message |-> <<"User not found: '", username, "'">>])

(* GET /api/users, lines 22-26 *)
getAllHandler(t) ==
    IF t.outcome.kind = "thrown"
    THEN Unhandled(t)
    ELSE Reply(200, t.outcome.value)

(* POST /api/users as it would be without its try and catch *)
postHandler_NoCatch(t) ==
    IF t.outcome.kind = "returned"
    THEN Reply(201, t.outcome.value)
    ELSE Unhandled(t)

(* POST /api/users, lines 34-46 *)
postHandler(t) ==
    IF t.outcome.kind = "returned"
    THEN Reply(201, t.outcome.value)
    ELSE IF t.outcome.error = "UsernameExistsError"
    THEN Reply(409, [message |-> ErrorMessage(t)])
    ELSE Reply(500, [message |-> <<"Unhandled error">>])

(* GET /api/users/:username, lines 57-67 *)
getOneHandler(t) ==
    IF t.outcome.kind = "thrown"
    THEN Unhandled(t)
    ELSE IF IsUser(t.outcome.value)
    THEN Reply(200, t.outcome.value)
    ELSE NotFound(t.request.username)

(* PATCH /api/users/:username as it would be if it caught the error of an  *)
(* inactive user and answered 409                                          *)
patchHandler_Conflict(t) ==
    IF t.outcome.kind = "thrown"
    THEN Reply(409, [message |-> ErrorMessage(t)])
    ELSE IF ~IsUser(t.outcome.value)
    THEN NotFound(t.request.username)
    ELSE Reply(200, t.outcome.value)

(* PATCH /api/users/:username, lines 75-85 *)
patchHandler(t) ==
    IF t.outcome.kind = "thrown"
    THEN Unhandled(t)
    ELSE IF ~IsUser(t.outcome.value)
    THEN NotFound(t.request.username)
    ELSE Reply(200, t.outcome.value)

(* DELETE /api/users/:username as it would be if it answered 204 whatever  *)
(* remove returned                                                         *)
deleteHandler_Always204(t) ==
    IF t.outcome.kind = "thrown"
    THEN Unhandled(t)
    ELSE Reply(204, Undefined)

(* DELETE /api/users/:username as it would be if it sent what remove       *)
(* returned                                                                *)
deleteHandler_SendsResult(t) ==
    IF t.outcome.kind = "thrown"
    THEN Unhandled(t)
    ELSE IF t.outcome.value = Bool(TRUE)
    THEN Reply(200, t.outcome.value)
    ELSE NotFound(t.request.username)

(* DELETE /api/users/:username, lines 93-103 *)
deleteHandler(t) ==
    IF t.outcome.kind = "thrown"
    THEN Unhandled(t)
    ELSE IF t.outcome.value = Bool(TRUE)
    THEN Reply(204, Undefined)
    ELSE NotFound(t.request.username)

(* The handler of the call's route answers when its service call has ended *)
Respond(t) ==
    IF t.pc # "done" \/ t.route = "none"
    THEN t
    ELSE [t EXCEPT !.reply =
            CASE t.route = "GET /" -> getAllHandler(t)
              [] t.route = "POST /" -> postHandler(t)
              [] t.route = "GET /:username" -> getOneHandler(t)
              [] t.route = "PATCH /:username" -> patchHandler(t)
              [] t.route = "DELETE /:username" -> deleteHandler(t)]

----------------------------------------------------------------------------
(* The state machine *)

World == [store |-> store, heap |-> heap, now |-> now]

(* Objects no reference reaches are gone: the heap keeps what the store,   *)
(* a call in flight or a result the callers still hold refers to           *)
Gc(h, s, ts) ==
    LET live == {s[i].ref : i \in 1..Len(s)}
                    \cup {ts[i].ref : i \in DOMAIN ts}
                    \cup UNION {{ts[i].out[k] : k \in DOMAIN ts[i].out} : i \in DOMAIN ts}
    IN  [a \in (DOMAIN h) \cap live |-> h[a]]

Listing == MapValues(store, heap)

Quiescent == queue = <<>>

(* The counter an increment started now would write, as the store stands *)
NextLogins(u) ==
    IF MapHas(store, u) /\ heap[MapGet(store, u)].status = "active"
    THEN heap[MapGet(store, u)].loginsCounter + 1
    ELSE 0

Init ==
    /\ store = <<>>
    /\ heap = <<>>
    /\ now = 0
    /\ tasks = [i \in Slots |-> FreeTask]
    /\ queue = <<>>
    /\ base = <<>>
    /\ returned = [u \in Usernames |-> 0]
    /\ serial = FALSE
    /\ chain = FALSE
    /\ ncalls = 0

(* The same module with callers that await every call *)
SeqInit ==
    /\ store = <<>>
    /\ heap = <<>>
    /\ now = 0
    /\ tasks = [i \in Slots |-> FreeTask]
    /\ queue = <<>>
    /\ base = <<>>
    /\ returned = [u \in Usernames |-> 0]
    /\ serial = TRUE
    /\ chain = FALSE
    /\ ncalls = 0

(* The same module with callers that await every call and keep the results *)
(* of up to Pair consecutive calls before they let go of them              *)
ChainInit ==
    /\ store = <<>>
    /\ heap = <<>>
    /\ now = 0
    /\ tasks = [i \in Slots |-> FreeTask]
    /\ queue = <<>>
    /\ base = <<>>
    /\ returned = [u \in Usernames |-> 0]
    /\ serial = TRUE
    /\ chain = TRUE
    /\ ncalls = 0

(* A store that lists l *)
FromListing(l, clk) ==
    [store |-> [k \in DOMAIN l |-> [key |-> l[k].username, ref |-> <<l[k].username, 1>>]],
     heap |-> [a \in {<<l[k].username, 1>> : k \in DOMAIN l} |->
                  l[CHOOSE k \in DOMAIN l : l[k].username = a[1]]],
     now |-> clk]

(* The records a store can hold at time clk: any names, status and counter *)
(* of the domains, created no later than last updated, no later than clk   *)
Records(clk) ==
    {r \in [username : Usernames, firstName : FirstNames, lastName : LastNames,
            status : Statuses, loginsCounter : 0..MaxLogins,
            creationTime : 0..clk, lastUpdateTime : 0..clk] :
        r.creationTime <= r.lastUpdateTime}

(* The repository on its own, with callers that await every call: the      *)
(* store is empty or holds one record, as creates and updates have left it *)
RepoInit ==
    /\ now \in 0..MaxTime
    /\ \E l \in {<<>>} \cup {<<r>> : r \in Records(now)} :
        /\ store = FromListing(l, now).store
        /\ heap = FromListing(l, now).heap
        /\ base = l
    /\ tasks = [i \in Slots |-> FreeTask]
    /\ queue = <<>>
    /\ returned = [u \in Usernames |-> 0]
    /\ serial = TRUE
    /\ chain = FALSE
    /\ ncalls = 0

(* The same module with callers that await every call, over the usernames *)
(* of Roster                                                               *)
RosterInit ==
    /\ store = <<>>
    /\ heap = <<>>
    /\ now = 0
    /\ tasks = [i \in Slots |-> FreeTask]
    /\ queue = <<>>
    /\ base = <<>>
    /\ returned = [u \in Roster |-> 0]
    /\ serial = TRUE
    /\ chain = FALSE
    /\ ncalls = 0

(* The listings a store of the usernames of Roster can hold when creates   *)
(* at time 0 have filled it: any of the usernames, each once, in any order *)
Listings ==
    {l \in UNION {[1..n -> {NewUser(data, 0) :
                               data \in [username : Roster, firstName : FirstNames,
                                         lastName : LastNames]}] :
                    n \in 0..Cardinality(Roster)} :
        \A j, k \in DOMAIN l : j # k => l[j].username # l[k].username}

(* The repository holding any such listing, with callers that await every  *)
(* call and keep the results of up to Pair consecutive calls               *)
ListingInit ==
    /\ now = 0
    /\ \E l \in Listings :
        /\ store = FromListing(l, now).store
        /\ heap = FromListing(l, now).heap
        /\ base = l
    /\ tasks = [i \in Slots |-> FreeTask]
    /\ queue = <<>>
    /\ returned = [u \in Roster |-> 0]
    /\ serial = TRUE
    /\ chain = TRUE
    /\ ncalls = 0

(* A burst is a set of calls that overlap: it opens with a call started    *)
(* when no call is in flight and the results of the burst before it have   *)
(* been taken, and it holds at most MaxBurst calls.                        *)
Idle == \A i \in Slots : tasks[i].pc = "free"

FreeSlots ==
    {i \in (IF chain THEN 1..Pair ELSE Slots) : tasks[i].pc = "free"}

(* Serial callers start a call only when none is in flight; overlapping    *)
(* callers start it between any two microtasks, MaxCalls calls at most;    *)
(* callers that keep results start it when none is in flight, MaxCalls     *)
(* calls at most                                                           *)
CanStart ==
    /\ FreeSlots # {}
    /\ IF chain THEN Quiescent /\ ncalls < MaxCalls
       ELSE IF serial THEN Idle
       ELSE (Idle \/ ~Quiescent) /\ ncalls < MaxCalls

(* A caller starts a service call: its synchronous part runs at once and   *)
(* the rest is queued; base records the listing a burst starts from        *)
Invoke(op, args) ==
    LET r == Begin(World, op, args)
        i == CHOOSE j \in FreeSlots : \A k \in FreeSlots : j <= k
    IN  /\ tasks' = [tasks EXCEPT ![i] = r.task]
        /\ queue' = IF InFlight(r.task) THEN Append(queue, i) ELSE queue
        /\ store' = r.store
        /\ heap' = Gc(r.heap, store', tasks')
        /\ base' = IF Idle THEN Listing ELSE base
        /\ ncalls' = IF serial /\ ~chain THEN ncalls ELSE ncalls + 1
        /\ UNCHANGED <<now, returned, serial, chain>>

(* A request passes its schema: the handler starts its service call *)
Request(route, request, op, args) ==
    LET r == Begin(World, op, args)
        i == CHOOSE j \in FreeSlots : \A k \in FreeSlots : j <= k
    IN  /\ tasks' = [tasks EXCEPT ![i] =
                        Respond([r.task EXCEPT !.route = route, !.request = request])]
        /\ queue' = IF InFlight(r.task) THEN Append(queue, i) ELSE queue
        /\ store' = r.store
        /\ heap' = Gc(r.heap, store', tasks')
        /\ base' = IF Idle THEN Listing ELSE base
        /\ ncalls' = IF serial /\ ~chain THEN ncalls ELSE ncalls + 1
        /\ UNCHANGED <<now, returned, serial, chain>>

(* A request fails its schema: it is answered 400 and no handler runs *)
Reject(route, request) ==
    LET i == CHOOSE j \in FreeSlots : \A k \in FreeSlots : j <= k
    IN  /\ tasks' = [tasks EXCEPT ![i] =
                        [FreeTask EXCEPT !.pc = "done", !.route = route,
                                         !.request = request, !.reply = BadRequest]]
        /\ base' = IF Idle THEN Listing ELSE base
        /\ ncalls' = IF serial /\ ~chain THEN ncalls ELSE ncalls + 1
        /\ UNCHANGED <<store, heap, now, queue, returned, serial, chain>>

(* The callers have the results of a burst that has ended *)
Await ==
    /\ Quiescent
    /\ ~Idle
    /\ tasks' = [i \in Slots |-> FreeTask]
    /\ heap' = Gc(heap, store, tasks')
    /\ base' = Listing
    /\ UNCHANGED <<store, now, queue, returned, serial, chain, ncalls>>

CallGetAll ==
    \E pageCurrent \in 0..MaxPage, pageSize \in 0..MaxPage :
        /\ CanStart
        /\ Invoke("getAll", [pageCurrent |-> pageCurrent, pageSize |-> pageSize])

CallGetByUsername ==
    \E username \in Usernames :
        /\ CanStart
        /\ Invoke("getByUsername", [username |-> username])

CallCreate ==
    \E data \in CreatePayload :
        /\ CanStart
        /\ Invoke("create", [data |-> data])

CallUpdateUserDetails ==
    \E username \in Usernames, data \in UpdateDetailsPayload :
        /\ CanStart
        /\ Invoke("updateUserDetails", [username |-> username, data |-> data])

CallUpdateUserStatus ==
    \E username \in Usernames, data \in UpdateStatusPayload :
        /\ CanStart
        /\ Invoke("updateUserStatus", [username |-> username, data |-> data])

CallIncreaseLoginsCounter ==
    \E username \in Usernames :
        /\ CanStart
        /\ NextLogins(username) <= MaxLogins
        /\ Invoke("increaseLoginsCounter", [username |-> username])

CallRemove ==
    \E username \in Usernames :
        /\ CanStart
        /\ Invoke("remove", [username |-> username])

(* create, remove and getAll over the usernames of Roster *)
CallCreateRoster ==
    /\ CanStart
    /\ \E username \in Roster, firstName \in FirstNames, lastName \in LastNames :
        Invoke("create", [data |-> [username |-> username, firstName |-> firstName,
                                    lastName |-> lastName]])

CallRemoveRoster ==
    /\ CanStart
    /\ \E username \in Roster :
        Invoke("remove", [username |-> username])

CallGetAllRoster ==
    /\ CanStart
    /\ \E pageCurrent \in 0..MaxRosterPage, pageSize \in 0..MaxRosterPage :
        Invoke("getAll", [pageCurrent |-> pageCurrent, pageSize |-> pageSize])

CallGetByUsernameRoster ==
    /\ CanStart
    /\ \E username \in Roster :
        Invoke("getByUsername", [username |-> username])

(* The repository's clearAll, which the tests call before each case *)
CallClearAll ==
    /\ CanStart
    /\ Invoke("clearAll", <<>>)

(* GET /api/users *)
RequestGetAll ==
    /\ CanStart
    /\ \E query \in Queries :
        LET q == ParseQuery(query)
        IN  IF q.ok
            THEN Request("GET /", query, "getAll",
                         [pageCurrent |-> q.pageCurrent, pageSize |-> q.pageSize])
            ELSE Reject("GET /", query)

(* POST /api/users *)
RequestPost ==
    /\ CanStart
    /\ \E body \in CreatePayload :
        Request("POST /", body, "create",
                [data |-> [username |-> body.username, firstName |-> body.firstName,
                           lastName |-> body.lastName]])

(* GET /api/users/:username *)
RequestGetOne ==
    /\ CanStart
    /\ \E username \in Usernames :
        Request("GET /:username", [username |-> username],
                "getByUsername", [username |-> username])

(* RequestPatch as it would be if the handler passed firstName, lastName   *)
(* and a status of the body on, as the handler of lines 106-128 does       *)
RequestPatch_WithStatus ==
    /\ CanStart
    /\ \E username \in Usernames, body \in UpdateDetailsPayload, status \in Statuses :
        Request("PATCH /:username",
                [username |-> username, body |-> body, status |-> status],
                "updateUserDetails",
                [username |-> username,
                 data |-> [f \in {"firstName", "lastName", "status"} |->
                              IF f = "status" THEN status
                              ELSE IF f \in DOMAIN body THEN body[f] ELSE Void(f)]])

(* PATCH /api/users/:username: the handler passes firstName and lastName   *)
(* of the body on, undefined where the body has none                       *)
RequestPatch ==
    /\ CanStart
    /\ \E username \in Usernames, body \in UpdateDetailsPayload :
        Request("PATCH /:username", [username |-> username, body |-> body],
                "updateUserDetails",
                [username |-> username,
                 data |-> [f \in {"firstName", "lastName"} |->
                              IF f \in DOMAIN body THEN body[f] ELSE Void(f)]])

(* DELETE /api/users/:username *)
RequestDelete ==
    /\ CanStart
    /\ \E username \in Usernames :
        Request("DELETE /:username", [username |-> username],
                "remove", [username |-> username])

(* The repository's update, called directly *)
CallUpdate ==
    /\ CanStart
    /\ \E username \in Usernames, data \in UpdatePayload :
        Invoke("update", [username |-> username, data |-> data])

(* The history of increaseLoginsCounter: a create that inserts starts the  *)
(* count of its username again; an increment counts when it returns a      *)
(* record and the object it wrote is the one the store holds               *)
Count(t, r) ==
    IF t.pc = "create" /\ r.task.pc = "create_set"
    THEN [returned EXCEPT ![t.args.data.username] = 0]
    ELSE IF /\ t.pc = "update"
            /\ t.op = "increaseLoginsCounter"
            /\ t.ref # NoRef
            /\ t.ref = MapGet(store, t.args.username)
    THEN [returned EXCEPT ![t.args.username] = @ + 1]
    ELSE returned

(* The call whose microtask is at the head of the queue is suspended at pc *)
AtHead(pc) == queue # <<>> /\ tasks[Head(queue)].pc = pc

(* The microtask at the head of the queue runs up to the next await of its *)
(* call, which queues the next microtask, or to the end of the call        *)
RunHead ==
    LET i == Head(queue)
        r == Resume(World, tasks[i])
    IN  /\ tasks' = [tasks EXCEPT ![i] = Respond(r.task)]
        /\ queue' = IF InFlight(r.task) THEN Append(Tail(queue), i) ELSE Tail(queue)
        /\ store' = r.store
        /\ heap' = Gc(r.heap, store', tasks')
        /\ returned' = Count(tasks[i], r)
        /\ UNCHANGED <<now, base, serial, chain, ncalls>>

GetAllResume == AtHead("getAll") /\ RunHead
GetByUsernameResume == AtHead("getByUsername") /\ RunHead
CreateResume == AtHead("create") /\ RunHead
CreateReturn == AtHead("create_set") /\ RunHead
UpdateResume == AtHead("update") /\ RunHead
RemoveResume == AtHead("remove") /\ RunHead
UpdateUserDetailsResume == AtHead("updateUserDetails") /\ RunHead
IncreaseLoginsCounterResume == AtHead("increaseLoginsCounter") /\ RunHead
ClearAllResume == AtHead("clearAll") /\ RunHead

(* The clock advances *)
Tick ==
    /\ now < MaxTime
    /\ now' = now + 1
    /\ UNCHANGED <<store, heap, tasks, queue, base, returned, serial, chain, ncalls>>

Next ==
    \/ CallGetAll
    \/ CallGetByUsername
    \/ CallCreate
    \/ CallUpdateUserDetails
    \/ CallUpdateUserStatus
    \/ CallIncreaseLoginsCounter
    \/ CallRemove
    \/ GetAllResume
    \/ GetByUsernameResume
    \/ CreateResume
    \/ CreateReturn
    \/ UpdateResume
    \/ RemoveResume
    \/ UpdateUserDetailsResume
    \/ IncreaseLoginsCounterResume
    \/ Await
    \/ Tick

(* A caller assigns every field of a record it was returned.  A User is a  *)
(* flat object of strings and numbers, so an object is shared as a whole   *)
(* or not at all; assigning all its fields shows what assigning any does.  *)
Assign(user) ==
    [username |-> "Modified", firstName |-> "Modified", lastName |-> "Modified",
     status |-> IF user.status = "active" THEN "inactive" ELSE "active",
     loginsCounter |-> user.loginsCounter + 1,
     creationTime |-> user.creationTime + 1,
     lastUpdateTime |-> user.lastUpdateTime + 1]

(* The value a call returned for the k-th object of its result *)
ReturnedRecord(t, k) ==
    IF t.op = "getAll" THEN t.outcome.value.list[k] ELSE t.outcome.value

(* The records the callers hold are as they were returned *)
Untouched ==
    \A i \in Slots : \A k \in DOMAIN tasks[i].out :
        heap[tasks[i].out[k]] = ReturnedRecord(tasks[i], k)

(* The caller mutates a returned record; one assignment per chain of calls *)
Mutate ==
    \E i \in Slots :
        /\ tasks[i].pc = "done"
        /\ Untouched
        /\ \E k \in DOMAIN tasks[i].out :
            heap' = [heap EXCEPT ![tasks[i].out[k]] = Assign(@)]
        /\ UNCHANGED <<store, now, tasks, queue, base, returned, serial, chain, ncalls>>

CallerNext ==
    \/ Next
    \/ Mutate

RepoNext ==
    \/ CallUpdate
    \/ UpdateResume
    \/ Await
    \/ Tick

RosterNext ==
    \/ CallCreateRoster
    \/ CallRemoveRoster
    \/ CallGetAllRoster
    \/ CreateResume
    \/ CreateReturn
    \/ RemoveResume
    \/ GetAllResume
    \/ Await

ListingNext ==
    \/ CallClearAll
    \/ CallGetAllRoster
    \/ CallGetByUsernameRoster
    \/ CallCreateRoster
    \/ ClearAllResume
    \/ GetAllResume
    \/ GetByUsernameResume
    \/ CreateResume
    \/ CreateReturn
    \/ Await

(* The routes, and updateUserStatus, which no route reaches: the tests set *)
(* a status through the repository                                         *)
RouteNext ==
    \/ RequestGetAll
    \/ RequestPost
    \/ RequestGetOne
    \/ RequestPatch
    \/ RequestDelete
    \/ CallUpdateUserStatus
    \/ GetAllResume
    \/ GetByUsernameResume
    \/ CreateResume
    \/ CreateReturn
    \/ UpdateResume
    \/ RemoveResume
    \/ UpdateUserDetailsResume
    \/ Await
    \/ Tick

(* The five registered routes and nothing else, requested so close        *)
(* together that the clock does not advance between them                   *)
HttpNext ==
    \/ RequestGetAll
    \/ RequestPost
    \/ RequestGetOne
    \/ RequestPatch
    \/ RequestDelete
    \/ GetAllResume
    \/ GetByUsernameResume
    \/ CreateResume
    \/ CreateReturn
    \/ UpdateResume
    \/ RemoveResume
    \/ UpdateUserDetailsResume
    \/ Await

(* The service operations that write the store, called so close together  *)
(* that the clock does not advance between them                            *)
MutationNext ==
    \/ CallCreate
    \/ CallUpdateUserDetails
    \/ CallUpdateUserStatus
    \/ CallIncreaseLoginsCounter
    \/ CallRemove
    \/ GetByUsernameResume
    \/ CreateResume
    \/ CreateReturn
    \/ UpdateResume
    \/ RemoveResume
    \/ UpdateUserDetailsResume
    \/ IncreaseLoginsCounterResume
    \/ Await

(* create, remove, getAll and the updates of a record's status and of its *)
(* loginsCounter                                                           *)
OrderNext ==
    \/ CallCreateRoster
    \/ CallRemoveRoster
    \/ CallUpdateUserStatus
    \/ CallIncreaseLoginsCounter
    \/ CallGetAllRoster
    \/ CreateResume
    \/ CreateReturn
    \/ RemoveResume
    \/ GetByUsernameResume
    \/ IncreaseLoginsCounterResume
    \/ UpdateResume
    \/ GetAllResume
    \/ Await

(* Calls overlap: up to MaxBurst per burst, MaxCalls per behaviour *)
Spec == Init /\ [][Next]_vars

(* The same, with the operations that write the store only *)
MutationSpec == Init /\ [][MutationNext]_vars

(* Calls run one after another: a call starts when none is in flight *)
SeqSpec == SeqInit /\ [][Next]_vars

(* Calls run one after another, MaxCalls per behaviour; the callers keep   *)
(* the results of up to Pair consecutive calls                             *)
ChainSpec == ChainInit /\ [][Next]_vars

(* update called on its own, one call after another *)
RepoSpec == RepoInit /\ [][RepoNext]_vars

(* create, remove and getAll, one call after another, on a store of up to  *)
(* three records                                                           *)
RosterSpec == RosterInit /\ [][RosterNext]_vars

(* clearAll, getAll, getByUsername and create, one call after another,     *)
(* MaxCalls per behaviour, from a store of up to three records; the        *)
(* callers keep the results of up to Pair consecutive calls                *)
ListingSpec == ListingInit /\ [][ListingNext]_vars

(* Requests to the routes, each answered before the next is sent *)
RouteSpec == SeqInit /\ [][RouteNext]_vars

(* Requests to the five registered routes alone, up to MaxBurst of them    *)
(* in flight at once, MaxCalls per behaviour                               *)
HttpSpec == Init /\ [][HttpNext]_vars

(* create, remove, two of the updates and getAll, one call after another,  *)
(* MaxCalls per behaviour, from a store of up to three records; the        *)
(* callers keep the results of up to Pair consecutive calls                *)
OrderSpec == ListingInit /\ [][OrderNext]_vars

(* The same, with callers that assign to the records they were returned *)
CallerSpec == ChainInit /\ [][CallerNext]_vars

----------------------------------------------------------------------------
(* Vocabulary of the properties *)

Done(i) == tasks[i].pc = "done"

InStore(u) == MapHas(store, u)
Stored(u) == heap[MapGet(store, u)]

(* The record of username u in the listing the burst began from *)
InBase(u) == \E k \in 1..Len(base) : base[k].username = u
BaseOf(u) == base[CHOOSE k \in 1..Len(base) : base[k].username = u]

(* The listing without the record of username u *)
Without(l, u) == SelectSeq(l, LAMBDA r : r.username # u)

(* A value with its timestamps blanked *)
EraseUser(u) == [u EXCEPT !.creationTime = 0, !.lastUpdateTime = 0]

EraseListing(l) == [k \in DOMAIN l |-> EraseUser(l[k])]

EraseValue(v) ==
    IF IsUser(v) THEN EraseUser(v)
    ELSE IF "list" \in DOMAIN v THEN [v EXCEPT !.list = EraseListing(@)]
    ELSE v

EraseOutcome(o) ==
    IF o.kind = "returned" THEN Returned(EraseValue(o.value)) ELSE o

(* A call run from its start to its end with no other call in between *)
RECURSIVE Complete(_, _)
Complete(r, clk) ==
    IF r.task.pc = "done"
    THEN r
    ELSE Complete(Resume([store |-> r.store, heap |-> r.heap, now |-> clk], r.task), clk)

Execute(w, op, args) ==
    LET r == Complete(Begin(w, op, args), w.now)
    IN  [r EXCEPT !.heap = Gc(r.heap, r.store, <<>>)]

(* The calls of the slots in order, each run to its end before the next *)
RECURSIVE OneAfterAnother(_, _, _)
OneAfterAnother(w, order, outs) ==
    IF order = <<>>
    THEN [store |-> w.store, heap |-> w.heap, outcomes |-> outs]
    ELSE LET i == Head(order)
             r == Execute(w, tasks[i].op, tasks[i].args)
         IN  OneAfterAnother([w EXCEPT !.store = r.store, !.heap = r.heap],
                             Tail(order), outs @@ (i :> r.task.outcome))

Orders(S) ==
    {o \in [1..Cardinality(S) -> S] : \A a, b \in DOMAIN o : a # b => o[a] # o[b]}

----------------------------------------------------------------------------
(* C1: a create whose username is already in the store fails with          *)
(* UsernameExistsError whatever names its payload carries, and the store   *)
(* afterwards lists the same records, field by field and in the same       *)
(* order, as before the call.                                              *)
C1_DuplicateCreateFails ==
    \A i \in Slots :
        (Done(i) /\ tasks[i].op = "create" /\ InBase(tasks[i].args.data.username))
            => /\ tasks[i].outcome = Thrown("UsernameExistsError")
               /\ Listing = base

(* A duplicate create has ended: its payload differs from the stored       *)
(* record, which was updated after its creation, and another record exists *)
C1_Witness ==
    \E i \in Slots :
        /\ Done(i)
        /\ tasks[i].op = "create"
        /\ InBase(tasks[i].args.data.username)
        /\ BaseOf(tasks[i].args.data.username).firstName # tasks[i].args.data.firstName
        /\ BaseOf(tasks[i].args.data.username).lastUpdateTime
              # BaseOf(tasks[i].args.data.username).creationTime
        /\ Len(base) = 2

(* C2: two create calls with the same username that overlap, the username *)
(* not being in the store when they start: exactly one returns a record,   *)
(* the other fails with UsernameExistsError, and the store holds the       *)
(* record that was returned.                                               *)
C2_OverlappingCreatesStayUnique ==
    \A i, j \in Slots :
        (/\ i # j
         /\ Done(i) /\ Done(j)
         /\ tasks[i].op = "create" /\ tasks[j].op = "create"
         /\ tasks[i].args.data.username = tasks[j].args.data.username
         /\ ~InBase(tasks[i].args.data.username))
            => \E k \in {i, j} :
                /\ tasks[k].outcome.kind = "returned"
                /\ \A l \in {i, j} \ {k} : tasks[l].outcome = Thrown("UsernameExistsError")
                /\ InStore(tasks[k].args.data.username)
                /\ Stored(tasks[k].args.data.username) = tasks[k].outcome.value

(* C3: no increment is lost: when no increaseLoginsCounter call on a       *)
(* stored user is in flight, its loginsCounter is the number of such calls *)
(* that returned a record since the user was created.                      *)
C3_NoIncrementLost ==
    \A u \in Usernames :
        (/\ InStore(u)
         /\ \A i \in Slots :
                (tasks[i].op = "increaseLoginsCounter" /\ tasks[i].args.username = u)
                    => Done(i))
            => Stored(u).loginsCounter = returned[u]

(* C4: the firstName, lastName and loginsCounter of an object change only  *)
(* in a step that finds its status active.                                 *)
C4_InactiveGateHolds ==
    [][\A a \in (DOMAIN heap) \cap (DOMAIN heap') :
            (\/ heap'[a].firstName # heap[a].firstName
             \/ heap'[a].lastName # heap[a].lastName
             \/ heap'[a].loginsCounter # heap[a].loginsCounter)
                => heap[a].status = "active"]_vars

(* C5: the calls of a burst are atomic: when the burst has ended, running  *)
(* its calls one after another in some order, from the listing the burst   *)
(* began with, gives every call the outcome it had and leaves the listing  *)
(* the burst left.  Timestamps are left out of the comparison, which only  *)
(* makes the statement weaker.                                             *)
C5_CallsAreAtomic ==
    (Quiescent /\ \E i \in Slots : Done(i)) =>
        LET used == {i \in Slots : Done(i)}
        IN  \E order \in Orders(used) :
                LET r == OneAfterAnother(FromListing(base, now), order, <<>>)
                IN  /\ \A i \in used :
                        EraseOutcome(r.outcomes[i]) = EraseOutcome(tasks[i].outcome)
                    /\ EraseListing(MapValues(r.store, r.heap)) = EraseListing(Listing)

C7_InactiveDetailsRejected ==
    \A i \in Slots :
        (/\ Done(i)
         /\ tasks[i].op = "updateUserDetails"
         /\ InBase(tasks[i].args.username)
         /\ BaseOf(tasks[i].args.username).status = "inactive")
            => /\ tasks[i].outcome = Thrown("UserInactiveError")
               /\ Listing = base

(* updateUserDetails with an empty payload on an inactive user has ended,  *)
(* at a time later than the record's last update                           *)
C7_Witness ==
    \E i \in Slots :
        /\ Done(i)
        /\ tasks[i].op = "updateUserDetails"
        /\ tasks[i].args.data = <<>>
        /\ InBase(tasks[i].args.username)
        /\ BaseOf(tasks[i].args.username).status = "inactive"
        /\ BaseOf(tasks[i].args.username).lastUpdateTime < now

(* C8: run one after another on an active user, every increaseLoginsCounter *)
(* returns a record whose loginsCounter is the stored value before the     *)
(* call plus 1 and stores it, so the stored counter is the number of       *)
(* increments since the creation.                                          *)
C8_IncrementAddsOne ==
    /\ \A i \in Slots :
        (/\ Done(i)
         /\ tasks[i].op = "increaseLoginsCounter"
         /\ InBase(tasks[i].args.username)
         /\ BaseOf(tasks[i].args.username).status = "active")
            => /\ tasks[i].outcome.kind = "returned"
               /\ IsUser(tasks[i].outcome.value)
               /\ tasks[i].outcome.value.loginsCounter
                     = BaseOf(tasks[i].args.username).loginsCounter + 1
               /\ InStore(tasks[i].args.username)
               /\ Stored(tasks[i].args.username) = tasks[i].outcome.value
    /\ \A u \in Usernames : InStore(u) => Stored(u).loginsCounter = returned[u]

(* The second increment after a creation has returned *)
C8_Witness ==
    \E i \in Slots :
        /\ Done(i)
        /\ tasks[i].op = "increaseLoginsCounter"
        /\ tasks[i].outcome.kind = "returned"
        /\ IsUser(tasks[i].outcome.value)
        /\ tasks[i].outcome.value.loginsCounter = 2
        /\ returned[tasks[i].args.username] = 2

(* C9: updateUserStatus on an existing user succeeds whatever the current  *)
(* status, and the status stored and returned is the one requested; on an  *)
(* active user, a reactivated one included, updateUserDetails and          *)
(* increaseLoginsCounter return the record.                                *)
C9_StatusAlwaysUpdatable ==
    \A i \in Slots :
        Done(i) =>
            /\ (tasks[i].op = "updateUserStatus" /\ InBase(tasks[i].args.username)) =>
                /\ tasks[i].outcome.kind = "returned"
                /\ IsUser(tasks[i].outcome.value)
                /\ tasks[i].outcome.value.status = tasks[i].args.data.status
                /\ InStore(tasks[i].args.username)
                /\ Stored(tasks[i].args.username).status = tasks[i].args.data.status
            /\ (/\ tasks[i].op \in {"updateUserDetails", "increaseLoginsCounter"}
                /\ InBase(tasks[i].args.username)
                /\ BaseOf(tasks[i].args.username).status = "active") =>
                /\ tasks[i].outcome.kind = "returned"
                /\ IsUser(tasks[i].outcome.value)

(* An inactive user has been reactivated by updateUserStatus *)
C9_Witness ==
    \E i \in Slots :
        /\ Done(i)
        /\ tasks[i].op = "updateUserStatus"
        /\ InBase(tasks[i].args.username)
        /\ BaseOf(tasks[i].args.username).status = "inactive"
        /\ tasks[i].args.data.status = "active"
        /\ Stored(tasks[i].args.username).status = "active"

(* C10: the status does not gate reading or removal: getByUsername returns *)
(* the stored record, getAll lists it, and remove deletes it and returns   *)
(* true, for an inactive user as for an active one.                        *)
C10_InactiveNotGatedForReadAndRemove ==
    \A i \in Slots :
        Done(i) =>
            /\ (tasks[i].op = "getByUsername" /\ InBase(tasks[i].args.username)) =>
                /\ tasks[i].outcome = Returned(BaseOf(tasks[i].args.username))
                /\ Listing = base
            /\ (/\ tasks[i].op = "getAll"
                /\ tasks[i].args.pageCurrent = 1
                /\ tasks[i].args.pageSize >= Len(base)
                /\ tasks[i].args.pageSize >= 1) =>
                /\ tasks[i].outcome.kind = "returned"
                /\ tasks[i].outcome.value.list = base
                /\ Listing = base
            /\ (tasks[i].op = "remove" /\ InBase(tasks[i].args.username)) =>
                /\ tasks[i].outcome = Returned(Bool(TRUE))
                /\ Listing = Without(base, tasks[i].args.username)

(* An inactive user has been removed while another record stays *)
C10_Witness ==
    \E i \in Slots :
        /\ Done(i)
        /\ tasks[i].op = "remove"
        /\ InBase(tasks[i].args.username)
        /\ BaseOf(tasks[i].args.username).status = "inactive"
        /\ Len(Listing) = 1

(* C11: a record returned by getAll, getByUsername, create or update is    *)
(* no object of the store: when a caller assigns the fields of a returned  *)
(* record, the store lists what it listed before, so every later read      *)
(* returns the values the store held before the assignment.                *)
C11_ReturnedRecordsAreCopies ==
    [][Mutate =>
        /\ Listing' = Listing
        /\ \A i \in Slots : \A k \in DOMAIN tasks[i].out :
               \A j \in 1..Len(store) : store[j].ref # tasks[i].out[k]]_vars

(* The caller has assigned the status of the record an update returned,    *)
(* and a later getByUsername has returned the record as the update left it *)
C11_Witness ==
    /\ Done(1) /\ tasks[1].op = "updateUserStatus" /\ tasks[1].out # <<>>
    /\ heap[tasks[1].out[1]].status # tasks[1].outcome.value.status
    /\ Done(2) /\ tasks[2].op = "getByUsername"
    /\ tasks[2].outcome = tasks[1].outcome

(* C12: a create that returns a record, followed directly by getByUsername *)
(* with the same username: getByUsername returns a record equal field by   *)
(* field to the one create returned.                                       *)
C12_CreateThenGet ==
    (/\ Done(1) /\ Done(2)
     /\ tasks[1].op = "create"
     /\ tasks[1].outcome.kind = "returned"
     /\ tasks[2].op = "getByUsername"
     /\ tasks[2].args.username = tasks[1].args.data.username)
        => /\ tasks[2].outcome.kind = "returned"
           /\ IsUser(tasks[2].outcome.value)
           /\ \A f \in DOMAIN tasks[1].outcome.value \cup DOMAIN tasks[2].outcome.value :
                  /\ f \in DOMAIN tasks[1].outcome.value
                  /\ f \in DOMAIN tasks[2].outcome.value
                  /\ tasks[2].outcome.value[f] = tasks[1].outcome.value[f]

(* create then getByUsername, with another record in the store and the     *)
(* clock past the time of the creation                                     *)
C12_Witness ==
    /\ Done(1) /\ Done(2)
    /\ tasks[1].op = "create"
    /\ tasks[1].outcome.kind = "returned"
    /\ tasks[2].op = "getByUsername"
    /\ tasks[2].args.username = tasks[1].args.data.username
    /\ Len(Listing) = 2
    /\ tasks[2].outcome.value.creationTime < now

(* C13: a create that succeeds returns a record with username, firstName   *)
(* and lastName of the payload, status active, loginsCounter 0 and         *)
(* creationTime = lastUpdateTime, and the store lists that record after    *)
(* the ones it listed; the time is the clock's when the call writes it.    *)
C13_CreateDefaults ==
    /\ [](\A i \in Slots :
            (Done(i) /\ tasks[i].op = "create" /\ ~InBase(tasks[i].args.data.username))
                => /\ tasks[i].outcome.kind = "returned"
                   /\ DOMAIN tasks[i].outcome.value =
                        {"username", "firstName", "lastName", "status",
                         "loginsCounter", "creationTime", "lastUpdateTime"}
                   /\ tasks[i].outcome.value.username = tasks[i].args.data.username
                   /\ tasks[i].outcome.value.firstName = tasks[i].args.data.firstName
                   /\ tasks[i].outcome.value.lastName = tasks[i].args.data.lastName
                   /\ tasks[i].outcome.value.status = "active"
                   /\ tasks[i].outcome.value.loginsCounter = 0
                   /\ tasks[i].outcome.value.lastUpdateTime
                        = tasks[i].outcome.value.creationTime
                   /\ Listing = Append(base, tasks[i].outcome.value))
    /\ [][\A i \in Slots :
            (tasks[i].pc = "create" /\ tasks'[i].pc = "create_set")
                => /\ MapHas(store', tasks[i].args.data.username)
                   /\ heap'[MapGet(store', tasks[i].args.data.username)].creationTime = now]_vars

(* A create has succeeded at a time after 0 in a store that held a record *)
C13_Witness ==
    \E i \in Slots :
        /\ Done(i)
        /\ tasks[i].op = "create"
        /\ tasks[i].outcome.kind = "returned"
        /\ tasks[i].outcome.value.creationTime = 1
        /\ Len(base) = 1

(* The objects the store refers to *)
StoredRefs == {store[k].ref : k \in 1..Len(store)}

(* Call i runs the part of update that writes the record, in this step *)
Updates(i) == tasks[i].pc = "update" /\ tasks'[i].pc = "done" /\ tasks[i].ref # NoRef

(* C14: the clock never goes backwards; every stored record has            *)
(* lastUpdateTime >= creationTime in every state, and every update of a    *)
(* record, through updateUserDetails, updateUserStatus or                  *)
(* increaseLoginsCounter, sets lastUpdateTime to the clock's value, which  *)
(* is >= the value it had.                                                 *)
C14_UpdateTimeMonotonic ==
    /\ [](\A a \in StoredRefs : heap[a].lastUpdateTime >= heap[a].creationTime)
    /\ [][/\ now' >= now
          /\ \A a \in (DOMAIN heap) \cap (DOMAIN heap') :
                heap'[a].lastUpdateTime >= heap[a].lastUpdateTime
          /\ \A i \in Slots :
                Updates(i) =>
                    /\ tasks[i].ref \in StoredRefs
                            => heap'[tasks[i].ref].lastUpdateTime = now
                    /\ tasks'[i].outcome.value.lastUpdateTime = now]_vars

(* A record created at time 0 and not updated since has been updated at    *)
(* time 1 by increaseLoginsCounter                                         *)
C14_Witness ==
    \E i \in Slots :
        /\ Done(i)
        /\ tasks[i].op = "increaseLoginsCounter"
        /\ tasks[i].outcome.kind = "returned"
        /\ IsUser(tasks[i].outcome.value)
        /\ tasks[i].outcome.value.creationTime = 0
        /\ tasks[i].outcome.value.lastUpdateTime = 1
        /\ BaseOf(tasks[i].args.username).lastUpdateTime = 0

(* C15: no update of a record, through updateUserDetails, updateUserStatus *)
(* or increaseLoginsCounter, changes its creationTime or its username:     *)
(* an object keeps both as long as it exists, and the store keeps it under *)
(* its username.                                                           *)
C15_CreationTimeAndUsernameFixed ==
    /\ [](\A k \in 1..Len(store) : heap[store[k].ref].username = store[k].key)
    /\ [][/\ \A a \in (DOMAIN heap) \cap (DOMAIN heap') :
                /\ heap'[a].creationTime = heap[a].creationTime
                /\ heap'[a].username = heap[a].username
          /\ \A i \in Slots :
                Updates(i) =>
                    /\ tasks'[i].outcome.value.creationTime
                          = heap[tasks[i].ref].creationTime
                    /\ tasks'[i].outcome.value.username = tasks[i].args.username]_vars

(* A record created at time 0 has been updated at time 1 *)
C15_Witness ==
    \E i \in Slots :
        /\ Done(i)
        /\ tasks[i].op \in {"updateUserDetails", "updateUserStatus", "increaseLoginsCounter"}
        /\ tasks[i].outcome.kind = "returned"
        /\ IsUser(tasks[i].outcome.value)
        /\ InStore(tasks[i].args.username)
        /\ Stored(tasks[i].args.username).creationTime = 0
        /\ Stored(tasks[i].args.username).lastUpdateTime = 1

(* The key f of the payload is present and not undefined *)
Present(data, f) == f \in DOMAIN data /\ data[f] # Void(f)

(* The listing l with the record of username u replaced by r *)
Replaced(l, u, r) == [k \in DOMAIN l |-> IF l[k].username = u THEN r ELSE l[k]]

(* C16: update on a stored user sets each of firstName, lastName, status   *)
(* and loginsCounter that is present and not undefined in the payload to   *)
(* the payload's value and leaves the others, username and creationTime    *)
(* as they were; with an empty or all-undefined payload only              *)
(* lastUpdateTime changes.  lastUpdateTime is set to the clock in every    *)
(* case.  The record is returned.                                          *)
C16_UpdateWritesPresentFields ==
    /\ [](\A i \in Slots :
            (Done(i) /\ tasks[i].op = "update" /\ InBase(tasks[i].args.username))
                => /\ InStore(tasks[i].args.username)
                   /\ tasks[i].outcome = Returned(Stored(tasks[i].args.username))
                   /\ \A f \in UpdateFields :
                        Stored(tasks[i].args.username)[f] =
                            IF Present(tasks[i].args.data, f)
                            THEN tasks[i].args.data[f]
                            ELSE BaseOf(tasks[i].args.username)[f]
                   /\ \A f \in {"username", "creationTime"} :
                        Stored(tasks[i].args.username)[f] = BaseOf(tasks[i].args.username)[f]
                   /\ Stored(tasks[i].args.username).lastUpdateTime
                        >= BaseOf(tasks[i].args.username).lastUpdateTime
                   /\ Listing = Replaced(base, tasks[i].args.username,
                                         Stored(tasks[i].args.username)))
    /\ [][\A i \in Slots :
            (Updates(i) /\ tasks[i].op = "update")
                => heap'[tasks[i].ref].lastUpdateTime = now]_vars

(* update with every key present and undefined has returned, at a time     *)
(* later than the record's last update                                     *)
C16_Witness ==
    \E i \in Slots :
        /\ Done(i)
        /\ tasks[i].op = "update"
        /\ InBase(tasks[i].args.username)
        /\ DOMAIN tasks[i].args.data = UpdateFields
        /\ \A f \in UpdateFields : tasks[i].args.data[f] = Void(f)
        /\ Stored(tasks[i].args.username).lastUpdateTime
              > BaseOf(tasks[i].args.username).lastUpdateTime

C18_RemoveThenAbsent ==
    (Done(1) /\ tasks[1].op = "remove") =>
        /\ tasks[1].outcome = Returned(Bool(InBase(tasks[1].args.username)))
        /\ tasks[2].pc = "free" =>
            /\ ~InStore(tasks[1].args.username)
            /\ Listing = Without(base, tasks[1].args.username)
        /\ (/\ Done(2)
            /\ tasks[2].op = "getByUsername"
            /\ tasks[2].args.username = tasks[1].args.username) =>
                tasks[2].outcome = Returned(Undefined)
        /\ (/\ Done(2)
            /\ tasks[2].op = "remove"
            /\ tasks[2].args.username = tasks[1].args.username) =>
                /\ tasks[2].outcome = Returned(Bool(FALSE))
                /\ Listing = Without(base, tasks[1].args.username)

(* A stored user has been removed and removed again *)
C18_Witness ==
    /\ Done(1) /\ tasks[1].op = "remove"
    /\ tasks[1].outcome = Returned(Bool(TRUE))
    /\ Done(2) /\ tasks[2].op = "remove"
    /\ tasks[2].args.username = tasks[1].args.username
    /\ tasks[2].outcome = Returned(Bool(FALSE))

(* C19: remove(username) changes no record of another username: the        *)
(* records stored under the other keys are listed after the call with the  *)
(* fields they had, in the order they had.                                 *)
C19_RemoveLeavesOthers ==
    \A i \in Slots :
        (Done(i) /\ tasks[i].op = "remove")
            => /\ Without(Listing, tasks[i].args.username)
                    = Without(base, tasks[i].args.username)
               /\ \A k \in 1..Len(base) :
                    base[k].username # tasks[i].args.username
                        => /\ InStore(base[k].username)
                           /\ Stored(base[k].username) = base[k]

(* The second of three records has been removed: the first and the third   *)
(* are listed in that order                                                *)
C19_Witness ==
    \E i \in Slots :
        /\ Done(i)
        /\ tasks[i].op = "remove"
        /\ Len(base) = 3
        /\ base[2].username = tasks[i].args.username
        /\ Listing = <<base[1], base[3]>>

(* C20: for a store of N records, pageCurrent >= 1 and pageSize S >= 1,    *)
(* getAll returns pageCount = ceil(N / S), the least number of pages of S  *)
(* records that hold N records, which is 0 for the empty store, and        *)
(* returns pageCurrent and pageSize as they were passed.                   *)
C20_PageCount ==
    \A i \in Slots :
        (/\ Done(i)
         /\ tasks[i].op = "getAll"
         /\ tasks[i].args.pageCurrent >= 1
         /\ tasks[i].args.pageSize >= 1)
            => /\ tasks[i].outcome.kind = "returned"
               /\ tasks[i].outcome.value.pageCount \in 0..Len(base)
               /\ tasks[i].outcome.value.pageCount * tasks[i].args.pageSize >= Len(base)
               /\ \A n \in 0..Len(base) :
                    n * tasks[i].args.pageSize >= Len(base)
                        => tasks[i].outcome.value.pageCount <= n
               /\ Len(base) = 0 => tasks[i].outcome.value.pageCount = 0
               /\ tasks[i].outcome.value.pageCurrent = tasks[i].args.pageCurrent
               /\ tasks[i].outcome.value.pageSize = tasks[i].args.pageSize

(* Three records in pages of two make two pages; the page asked for is     *)
(* past the last                                                           *)
C20_Witness ==
    \E i \in Slots :
        /\ Done(i)
        /\ tasks[i].op = "getAll"
        /\ Len(base) = 3
        /\ tasks[i].args.pageSize = 2
        /\ tasks[i].args.pageCurrent = 3
        /\ tasks[i].outcome.kind = "returned"
        /\ tasks[i].outcome.value.pageCount = 2

(* C21: for N records, page p >= 1 and size S >= 1, getAll returns the     *)
(* records at positions (p-1)*S up to (p-1)*S + S - 1 of the store's       *)
(* listing (counted from 0), so the list has min(S, max(0, N - (p-1)*S))   *)
(* records; for p greater than pageCount the list is empty and pageCount   *)
(* is still ceil(N / S).  The store is left as it was.                     *)
C21_PageSlice ==
    \A i \in Slots :
        (/\ Done(i)
         /\ tasks[i].op = "getAll"
         /\ tasks[i].args.pageCurrent >= 1
         /\ tasks[i].args.pageSize >= 1)
            => LET p == tasks[i].args.pageCurrent
                   S == tasks[i].args.pageSize
                   N == Len(base)
                   rest == N - (p - 1) * S
                   v == tasks[i].outcome.value
               IN  /\ tasks[i].outcome.kind = "returned"
                   /\ Len(v.list) = Min(S, IF rest > 0 THEN rest ELSE 0)
                   /\ \A k \in 1..Len(v.list) : v.list[k] = base[(p - 1) * S + k]
                   /\ p > v.pageCount =>
                        /\ v.list = <<>>
                        /\ v.pageCount * S >= N
                        /\ (v.pageCount - 1) * S < N
                   /\ Listing = base

(* Three records in pages of two: the second page holds the third record   *)
(* alone                                                                   *)
C21_Witness ==
    \E i \in Slots :
        /\ Done(i)
        /\ tasks[i].op = "getAll"
        /\ Len(base) = 3
        /\ tasks[i].args.pageCurrent = 2
        /\ tasks[i].args.pageSize = 2
        /\ tasks[i].outcome.kind = "returned"
        /\ tasks[i].outcome.value.list = <<base[3]>>

(* C22: getAll with pageCurrent < 1 fails with PageCurrentError, and with  *)
(* pageCurrent >= 1 and pageSize < 1 with PageSizeError, both range        *)
(* errors, whatever the store holds, and the store is unchanged.           *)
C22_RangeErrors ==
    \A i \in Slots :
        (Done(i) /\ tasks[i].op = "getAll") =>
            /\ tasks[i].args.pageCurrent < 1 =>
                /\ tasks[i].outcome = Thrown("PageCurrentError")
                /\ tasks[i].outcome.error \in RangeErrors
                /\ Listing = base
            /\ (tasks[i].args.pageCurrent >= 1 /\ tasks[i].args.pageSize < 1) =>
                /\ tasks[i].outcome = Thrown("PageSizeError")
                /\ tasks[i].outcome.error \in RangeErrors
                /\ Listing = base

(* getAll(0, 0) has failed on a store of two records *)
C22_Witness ==
    \E i \in Slots :
        /\ Done(i)
        /\ tasks[i].op = "getAll"
        /\ tasks[i].args.pageCurrent = 0
        /\ tasks[i].args.pageSize = 0
        /\ tasks[i].outcome.kind = "thrown"
        /\ Len(base) = 2

C25_ClearAllEmpties ==
    (Done(1) /\ tasks[1].op = "clearAll") =>
        /\ tasks[1].outcome = Returned(Undefined)
        /\ tasks[2].pc = "free" => (store = <<>> /\ Listing = <<>>)
        /\ (Done(2) /\ tasks[2].op = "getByUsername") =>
                /\ tasks[2].outcome = Returned(Undefined)
                /\ store = <<>>
        /\ (/\ Done(2)
            /\ tasks[2].op = "getAll"
            /\ tasks[2].args.pageCurrent >= 1
            /\ tasks[2].args.pageSize >= 1) =>
                /\ tasks[2].outcome.kind = "returned"
                /\ tasks[2].outcome.value.list = <<>>
                /\ tasks[2].outcome.value.pageCount = 0
                /\ store = <<>>
        /\ (Done(2) /\ tasks[2].op = "create") =>
                /\ tasks[2].outcome.kind = "returned"
                /\ tasks[2].outcome.value.username = tasks[2].args.data.username
                /\ Listing = <<tasks[2].outcome.value>>

(* A store of three records has been cleared and the username of its       *)
(* second record has been created again                                    *)
C25_Witness ==
    /\ Done(1) /\ tasks[1].op = "clearAll"
    /\ Len(base) = 3
    /\ Done(2) /\ tasks[2].op = "create"
    /\ tasks[2].args.data.username = base[2].username
    /\ tasks[2].outcome.kind = "returned"

(* The world a repository function finds after an await *)
After(w, r) == [w EXCEPT !.store = r.store, !.heap = r.heap]

(* The repository function of the name op, called on its own and awaited:  *)
(* its segments one after the other, up to the one that ends it            *)
Repository(w, op, args) ==
    LET t == NewTask(op, args, op)
    IN  CASE op = "getAll" ->
                LET r0 == getAll0(w, t)
                IN  IF r0.task.pc = "done" THEN r0 ELSE getAll1(After(w, r0), r0.task)
          [] op = "getByUsername" ->
                LET r0 == getByUsername0(w, t)
                IN  getByUsername1(After(w, r0), r0.task)
          [] op = "create" ->
                LET r0 == create0(w, t)
                    r1 == create1(After(w, r0), r0.task)
                IN  IF r1.task.pc = "done" THEN r1 ELSE create2(After(w, r1), r1.task)
          [] op = "remove" ->
                LET r0 == remove0(w, t)
                IN  remove1(After(w, r0), r0.task)

C26_PatchInactiveIs500 ==
    \A i \in Slots :
        (/\ Done(i)
         /\ tasks[i].route = "PATCH /:username"
         /\ InBase(tasks[i].request.username)
         /\ BaseOf(tasks[i].request.username).status = "inactive")
            => /\ tasks[i].reply.status = 500
               /\ tasks[i].reply.body =
                    [message |-> <<"User is inactive: '", tasks[i].request.username, "'">>]
               /\ Listing = base

(* PATCH with both names in the body has been answered for an inactive     *)
(* user, at a time later than the record's last update, while another      *)
(* record is stored                                                        *)
C26_Witness ==
    \E i \in Slots :
        /\ Done(i)
        /\ tasks[i].route = "PATCH /:username"
        /\ DOMAIN tasks[i].request.body = {"firstName", "lastName"}
        /\ InBase(tasks[i].request.username)
        /\ BaseOf(tasks[i].request.username).status = "inactive"
        /\ BaseOf(tasks[i].request.username).firstName # tasks[i].request.body.firstName
        /\ BaseOf(tasks[i].request.username).lastUpdateTime < now
        /\ Len(base) = 2

(* C27: POST /api/users is answered 201 with the created record, which the *)
(* store then lists, when the username is new, and 409 with the message    *)
(* "Username already exists: '<username>'" when the username is already    *)
(* stored, in which case the stored record is unchanged.                   *)
C27_PostCreatedOrConflict ==
    \A i \in Slots :
        (Done(i) /\ tasks[i].route = "POST /") =>
            /\ ~InBase(tasks[i].request.username) =>
                /\ tasks[i].reply.status = 201
                /\ IsUser(tasks[i].reply.body)
                /\ tasks[i].reply.body.username = tasks[i].request.username
                /\ tasks[i].reply.body.firstName = tasks[i].request.firstName
                /\ tasks[i].reply.body.lastName = tasks[i].request.lastName
                /\ Listing = Append(base, tasks[i].reply.body)
            /\ InBase(tasks[i].request.username) =>
                /\ tasks[i].reply.status = 409
                /\ tasks[i].reply.body =
                     [message |-> <<"Username already exists: '",
                                    tasks[i].request.username, "'">>]
                /\ Listing = base

(* POST for a stored username, with a first name the record does not have, *)
(* has been answered 409                                                   *)
C27_Witness ==
    \E i \in Slots :
        /\ Done(i)
        /\ tasks[i].route = "POST /"
        /\ InBase(tasks[i].request.username)
        /\ BaseOf(tasks[i].request.username).firstName # tasks[i].request.firstName
        /\ tasks[i].reply.status = 409
        /\ Len(base) = 2

(* C28: GET, PATCH and DELETE on /api/users/:username for a username that  *)
(* is not in the store are each answered 404 with the message "User not    *)
(* found: '<username>'" and leave the store unchanged.                     *)
C28_AbsentIs404 ==
    \A i \in Slots :
        (/\ Done(i)
         /\ tasks[i].route \in {"GET /:username", "PATCH /:username", "DELETE /:username"}
         /\ ~InBase(tasks[i].request.username))
            => /\ tasks[i].reply.status = 404
               /\ tasks[i].reply.body =
                    [message |-> <<"User not found: '", tasks[i].request.username, "'">>]
               /\ Listing = base

(* DELETE for a username that is not stored has been answered, while       *)
(* another username is stored                                              *)
C28_Witness ==
    \E i \in Slots :
        /\ Done(i)
        /\ tasks[i].route = "DELETE /:username"
        /\ ~InBase(tasks[i].request.username)
        /\ tasks[i].reply.status = 404
        /\ Len(base) = 1

(* C29: DELETE /api/users/:username for an existing user is answered 204   *)
(* with an empty body, and afterwards that username is absent from the     *)
(* store while every other user's record is unchanged.                     *)
C29_DeleteIs204 ==
    \A i \in Slots :
        (/\ Done(i)
         /\ tasks[i].route = "DELETE /:username"
         /\ InBase(tasks[i].request.username))
            => /\ tasks[i].reply.status = 204
               /\ tasks[i].reply.body = Undefined
               /\ ~InStore(tasks[i].request.username)
               /\ Listing = Without(base, tasks[i].request.username)
               /\ \A k \in 1..Len(base) :
                    base[k].username # tasks[i].request.username
                        => /\ InStore(base[k].username)
                           /\ Stored(base[k].username) = base[k]

(* The first of two stored users has been deleted; the other is inactive *)
C29_Witness ==
    \E i \in Slots :
        /\ Done(i)
        /\ tasks[i].route = "DELETE /:username"
        /\ Len(base) = 2
        /\ base[1].username = tasks[i].request.username
        /\ base[2].status = "inactive"
        /\ tasks[i].reply.status = 204
        /\ Listing = <<base[2]>>

(* The key of the query is present and its number is below 1 *)
BelowOne(query, key) ==
    /\ key \in DOMAIN query
    /\ ~Number(query[key]).nan
    /\ Number(query[key]).value < 1

(* C30: GET /api/users calls the service with pageCurrent = 1 and          *)
(* pageSize = 6 where the query omits them; a query with pageCurrent or    *)
(* pageSize below 1 is answered 400 without the service being called, so   *)
(* no call made by the route ends in one of the repository's range errors. *)
C30_GetAllDefaultsAndValidation ==
    \A i \in Slots :
        (Done(i) /\ tasks[i].route = "GET /") =>
            /\ (BelowOne(tasks[i].request, "pageCurrent")
                    \/ BelowOne(tasks[i].request, "pageSize")) =>
                /\ tasks[i].reply.status = 400
                /\ tasks[i].op = "none"
                /\ tasks[i].outcome = Pending
                /\ Listing = base
            /\ tasks[i].op # "none" =>
                /\ tasks[i].op = "getAll"
                /\ "pageCurrent" \notin DOMAIN tasks[i].request
                        => tasks[i].args.pageCurrent = 1
                /\ "pageSize" \notin DOMAIN tasks[i].request
                        => tasks[i].args.pageSize = 6
                /\ "pageCurrent" \in DOMAIN tasks[i].request
                        => tasks[i].args.pageCurrent
                              = Number(tasks[i].request.pageCurrent).value
                /\ "pageSize" \in DOMAIN tasks[i].request
                        => tasks[i].args.pageSize = Number(tasks[i].request.pageSize).value
                /\ tasks[i].outcome.kind = "returned"
                /\ tasks[i].reply.status = 200
                /\ tasks[i].reply.body.pageCurrent = tasks[i].args.pageCurrent
                /\ tasks[i].reply.body.pageSize = tasks[i].args.pageSize
            /\ tasks[i].request = <<>> =>
                /\ tasks[i].reply.status = 200
                /\ tasks[i].reply.body.pageCurrent = 1
                /\ tasks[i].reply.body.pageSize = 6
                /\ tasks[i].reply.body.list = base

(* GET /api/users with an empty query has been answered with both records  *)
(* of the store, pageCurrent 1 and pageSize 6                              *)
C30_Witness ==
    \E i \in Slots :
        /\ Done(i)
        /\ tasks[i].route = "GET /"
        /\ tasks[i].request = <<>>
        /\ Len(base) = 2
        /\ tasks[i].reply.status = 200
        /\ tasks[i].reply.body.pageSize = 6
        /\ Len(tasks[i].reply.body.list) = 2

(* C31: a successful increaseLoginsCounter changes only loginsCounter and  *)
(* lastUpdateTime of the target record: the step of the call that writes   *)
(* the record leaves its firstName, lastName and status as they were       *)
(* stored immediately before it, also when an updateUserDetails or         *)
(* updateUserStatus on the same user has completed between the call's read *)
(* and its write.                                                          *)
C31_IncrementTouchesOnlyCounter ==
    [][\A i \in Slots :
        (/\ Updates(i)
         /\ tasks[i].op = "increaseLoginsCounter"
         /\ tasks[i].ref \in StoredRefs)
            => /\ heap'[tasks[i].ref].firstName = heap[tasks[i].ref].firstName
               /\ heap'[tasks[i].ref].lastName = heap[tasks[i].ref].lastName
               /\ heap'[tasks[i].ref].status = heap[tasks[i].ref].status]_vars

C33_StoredUnderOwnUsername ==
    /\ \A k \in 1..Len(store) : heap[store[k].ref].username = store[k].key
    /\ \A j, k \in 1..Len(store) :
            j # k => /\ store[j].key # store[k].key
                     /\ Listing[j].username # Listing[k].username

(* Two creates of the same username have overlapped and both have returned *)
(* a record; the store holds one record of that username and one other     *)
C33_Witness ==
    /\ Done(1) /\ Done(2)
    /\ tasks[1].op = "create" /\ tasks[2].op = "create"
    /\ tasks[1].args.data.username = tasks[2].args.data.username
    /\ tasks[1].outcome.kind = "returned"
    /\ tasks[2].outcome.kind = "returned"
    /\ Len(store) = 2

(* C34: getAll and getByUsername are read-only: whether the call returns a *)
(* value or fails, no step of it changes the store: the keys, their order  *)
(* and every field of every record are the same before and after.          *)
C34_ReadsChangeNothing ==
    [][\A i \in Slots :
        (tasks'[i] # tasks[i] /\ tasks'[i].op \in {"getAll", "getByUsername"})
            => /\ store' = store
               /\ Listing' = Listing]_vars

(* On a store of three records a getAll has failed with a range error and  *)
(* the getByUsername after it has returned a record                        *)
C34_Witness ==
    /\ Done(1) /\ tasks[1].op = "getAll"
    /\ tasks[1].outcome.kind = "thrown"
    /\ Done(2) /\ tasks[2].op = "getByUsername"
    /\ IsUser(tasks[2].outcome.value)
    /\ Len(base) = 3
    /\ Listing = base

(* The lists of the pages, one after the other *)
RECURSIVE Flatten(_)
Flatten(pages) ==
    IF pages = <<>> THEN <<>> ELSE Head(pages) \o Flatten(Tail(pages))

(* C35: for a fixed store state with N records and any pageSize S >= 1,    *)
(* the lists of pages 1 to pageCount, one after the other in page order,   *)
(* are the store's listing: every stored record exactly once; and every    *)
(* page before the last has exactly S records.  The page a getAll call     *)
(* returned is the one of its number among them.                           *)
C35_PagesPartitionListing ==
    \A i \in Slots :
        (/\ Done(i)
         /\ tasks[i].op = "getAll"
         /\ tasks[i].args.pageCurrent >= 1
         /\ tasks[i].args.pageSize >= 1)
            => LET S == tasks[i].args.pageSize
                   v == tasks[i].outcome.value
                   pages == [q \in 1..v.pageCount |-> Page(base, q, S).list]
               IN  /\ tasks[i].outcome.kind = "returned"
                   /\ Flatten(pages) = base
                   /\ \A q \in 1..(v.pageCount - 1) : Len(pages[q]) = S
                   /\ v.pageCount >= 1 => Len(pages[v.pageCount]) \in 1..S
                   /\ tasks[i].args.pageCurrent <= v.pageCount
                        => v.list = pages[tasks[i].args.pageCurrent]

(* Three records in pages of two: getAll has returned the first of the    *)
(* two pages, which is full                                                *)
C35_Witness ==
    \E i \in Slots :
        /\ Done(i)
        /\ tasks[i].op = "getAll"
        /\ Len(base) = 3
        /\ tasks[i].args.pageSize = 2
        /\ tasks[i].args.pageCurrent = 1
        /\ tasks[i].outcome.kind = "returned"
        /\ tasks[i].outcome.value.pageCount = 2
        /\ tasks[i].outcome.value.list = <<base[1], base[2]>>

(* The usernames the store lists, in the order it lists them *)
Keys(s) == [k \in 1..Len(s) |-> s[k].key]

C37_RoutesKeepDefaults ==
    \A a \in StoredRefs :
        /\ heap[a].status = "active"
        /\ heap[a].loginsCounter = 0

(* A POST has been answered and a PATCH of the same username, with another *)
(* first name, has been answered 200: the stored record has the new first  *)
(* name and is still active with loginsCounter 0                           *)
C37_Witness ==
    \E i \in Slots :
        /\ Done(i)
        /\ tasks[i].route = "PATCH /:username"
        /\ tasks[i].reply.status = 200
        /\ "firstName" \in DOMAIN tasks[i].request.body
        /\ \E j \in Slots :
              /\ Done(j)
              /\ tasks[j].route = "POST /"
              /\ tasks[j].reply.status = 201
              /\ tasks[j].request.username = tasks[i].request.username
              /\ tasks[j].request.firstName # tasks[i].request.body.firstName
        /\ MapHas(store, tasks[i].request.username)
        /\ LET user == heap[MapGet(store, tasks[i].request.username)]
           IN  /\ user.firstName = tasks[i].request.body.firstName
               /\ user.status = "active"
               /\ user.loginsCounter = 0

====
